---- MODULE Spec2Model ----
(***************************************************************************)
(* Model of the lbl state-machine engine of include/fsm.h: State (the      *)
(* transition table), Transition (guarded action) and StateMachine (run    *)
(* flag, current state, event dispatch).                                   *)
(*                                                                         *)
(* Guards, actions and entry/exit hooks are member functions of the driven *)
(* context supplied by the embedding component.  Their effect on the       *)
(* engine is what the engine sees of them: a guard returns a verdict, a    *)
(* hook or action is invoked.  Each invocation is recorded, in order, in   *)
(* the trace of the operation that made it, together with the value of     *)
(* m_stCurrent at that moment.  A guard's verdict is an input of the       *)
(* dispatch: it is a function of the context and of the event, and the     *)
(* exit hook (which may change the context) runs between the two scans.    *)
(***************************************************************************)
EXTENDS Integers, Sequences, FiniteSets, TLC

\* Bound of the model: the number of transitions registered in total.
MaxTransitions == 2

\* The State objects and the event identifiers of the embedding component.
States == {"s1", "s2"}
EventIDs == {"e1", "e2"}

\* The null pointer.
NULL == "null"

\* enum { eStopped = 0, eRunning }
eStopped == 0
eRunning == 1

\* State<T,EV,CMP>* const m_stStart: the start state the machine is built with.
m_stStart == "s1"

VARIABLES
    m_stTable,      \* per State: std::map event_id -> vector of Transition
    m_stThis,       \* the run flag of the machine
    m_stCurrent,    \* the current State of the machine (or NULL)
    ndebug,         \* the build: TRUE when assert() is compiled out
    aborted,        \* the process was terminated (assert or null dereference)
    last            \* the last operation: its arguments, result and trace

vars == <<m_stTable, m_stThis, m_stCurrent, ndebug, aborted, last>>

----------------------------------------------------------------------------
\* The trace of an operation: one entry per guard, hook or action invoked.

\* h: what was invoked; ph: the scan it was invoked in; st: the State the hook
\* belongs to (the owner of the table for a guard or an action); i: the
\* position of the candidate; v: the verdict of a guard; cur: m_stCurrent when
\* the invocation was made.
Entry(h, ph, st, i, v, cur) ==
    [h |-> h, ph |-> ph, st |-> st, i |-> i, v |-> v, cur |-> cur]

NoEvent == "-"

\* The States and the event of the engine's basic use: one unguarded
\* transition Idle --GO--> Active, the machine built with start state Idle.
Idle == m_stStart
Active == "s2"
GO == "e1"

\* The tables hold Idle --GO--> Active (unguarded) as the only candidate of
\* Idle for GO, and no candidate of Active for GO.
IdleGoActive ==
    /\ GO \in DOMAIN m_stTable[Idle]
    /\ m_stTable[Idle][GO] = <<[m_stNext |-> Active, m_guard |-> "NoGuard"]>>
    /\ GO \in DOMAIN m_stTable[Active] => m_stTable[Active][GO] = <<>>

\* How far the calls made so far have followed the sequence PostEvent(GO),
\* Start(), PostEvent(GO), PostEvent(GO) begun on a stopped machine in Idle
\* over the tables above: n calls of it were made before this one (op, ev).
Followed(n, op, ev) ==
    IF op = "PostEvent" /\ ev = GO /\ n = 3 THEN 4
    ELSE IF op = "PostEvent" /\ ev = GO /\ n = 2 THEN 3
    ELSE IF op = "Start" /\ n = 1 THEN 2
    ELSE IF /\ op = "PostEvent" /\ ev = GO
            /\ m_stThis = eStopped /\ m_stCurrent = Idle /\ IdleGoActive
         THEN 1
    ELSE 0

\* Within the trace log no guard returned two different verdicts.
Consistent(log) ==
    \A a, b \in 1..Len(log) :
        (log[a].h = "guard" /\ log[b].h = "guard" /\ log[a].i = log[b].i)
            => log[a].v = log[b].v

\* The record of an operation: the call, its result and trace, and the state
\* it was made in (st: the State it acts on, tbl0: the tables before it); and
\* of the calls made so far, seq: how far they followed the sequence above,
\* det: every guard was deterministic in every one of them, seen: the States
\* that were current when one of them was made.
Op(op, ev, ret, log, cur0, this0, tv) ==
    [op |-> op, ev |-> ev, ret |-> ret, log |-> log,
     cur0 |-> cur0, this0 |-> this0, tv |-> tv,
     st |-> cur0,
     tbl0 |-> IF op = "new" THEN [s \in States |-> <<>>] ELSE m_stTable,
     seq |-> IF op = "new" THEN 0 ELSE Followed(last.seq, op, ev),
     det |-> IF op = "new" THEN TRUE ELSE last.det /\ Consistent(log),
     seen |-> IF op = "new" THEN {cur0} ELSE last.seen \cup ({cur0} \cap States)]

----------------------------------------------------------------------------
\* Guards

\* NoGuard::operator() forwarding to the context like an EventGuard.
Guard_call_Forward(g, v) == v

\* NoGuard::operator() returns true; EventGuard::operator() returns what the
\* member function of the context returns (v).
Guard_call(g, v) == IF g = "NoGuard" THEN TRUE ELSE v

----------------------------------------------------------------------------
\* Transitions

\* Transition::isTransitable on candidate i of State st: the verdict, and the
\* guard it evaluated.
isTransitable(t, v, st, i, cur) ==
    IF t.m_guard = NULL
    THEN [ret |-> TRUE, log |-> <<>>]
    ELSE [ret |-> Guard_call(t.m_guard, v),
          log |-> <<Entry("guard", "pre", st, i, Guard_call(t.m_guard, v), cur)>>]

\* Transition::operator() with the action executed before the guard is looked at.
Transition_call_ActionFirst(t, v, st, i, cur) ==
    LET g == IF t.m_guard = NULL THEN <<>>
             ELSE <<Entry("guard", "scan", st, i, Guard_call(t.m_guard, v), cur)>>
        a == <<Entry("action", "scan", st, i, TRUE, cur)>>
    IN IF t.m_guard = NULL \/ (t.m_guard # NULL /\ Guard_call(t.m_guard, v))
       THEN [next |-> t.m_stNext, log |-> a \o g]
       ELSE [next |-> NULL, log |-> a \o g]

\* Transition::operator() without the test of its guard: the guard is
\* evaluated and the action is executed whatever the verdict.
Transition_call_Unguarded(t, v, st, i, cur) ==
    LET g == IF t.m_guard = NULL THEN <<>>
             ELSE <<Entry("guard", "scan", st, i, Guard_call(t.m_guard, v), cur)>>
    IN [next |-> t.m_stNext,
        log |-> g \o <<Entry("action", "scan", st, i, TRUE, cur)>>]

\* Transition::operator() on candidate i of State st: when the guard passes
\* the action is executed and the target returned, otherwise 0 is returned.
Transition_call(t, v, st, i, cur) ==
    LET g == IF t.m_guard = NULL THEN <<>>
             ELSE <<Entry("guard", "scan", st, i, Guard_call(t.m_guard, v), cur)>>
    IN IF t.m_guard = NULL \/ (t.m_guard # NULL /\ Guard_call(t.m_guard, v))
       THEN [next |-> t.m_stNext,
             log |-> g \o <<Entry("action", "scan", st, i, TRUE, cur)>>]
       ELSE [next |-> NULL, log |-> g]

----------------------------------------------------------------------------
\* States

\* The number of transitions registered on all States.
Registered ==
    LET RECURSIVE Sum(_, _)
        Sum(f, D) == IF D = {} THEN 0
                     ELSE LET k == CHOOSE x \in D : TRUE
                          IN Len(f[k]) + Sum(f, D \ {k})
        RECURSIVE Tot(_)
        Tot(S) == IF S = {} THEN 0
                  ELSE LET s == CHOOSE x \in S : TRUE
                       IN Sum(m_stTable[s], DOMAIN m_stTable[s]) + Tot(S \ {s})
    IN Tot(States)

\* std::map::operator[]: the map with the key present (an absent key is
\* inserted with an empty vector).
Map_index(tbl, ev) ==
    IF ev \in DOMAIN tbl THEN tbl ELSE tbl @@ (ev :> <<>>)

\* State::add inserting the new Transition at the front of the vector.
State_add_Front(tbl, ev, stNext, hGuard) ==
    LET guard == IF hGuard = 0 THEN "NoGuard" ELSE "EventGuard"
        m == Map_index(tbl, ev)
    IN [m EXCEPT ![ev] = <<[m_stNext |-> stNext, m_guard |-> guard]>> \o @]

\* State::add: the guard is NoGuard when hGuard == 0 and EventGuard otherwise;
\* the new Transition is pushed at the back of the vector of ev.
State_add(tbl, ev, stNext, hGuard) ==
    LET guard == IF hGuard = 0 THEN "NoGuard" ELSE "EventGuard"
        m == Map_index(tbl, ev)
    IN [m EXCEPT ![ev] = Append(@, [m_stNext |-> stNext, m_guard |-> guard])]

\* State::operator[]: m_stTable[ev]
State_index(tbl, ev) == Map_index(tbl, ev)

\* State::Exit and State::Enter invoke m_evExit and m_evEnter of the State.
State_Exit(st, cur) == <<Entry("exit", "-", st, 0, TRUE, cur)>>
State_Enter(st, cur) == <<Entry("enter", "-", st, 0, TRUE, cur)>>

----------------------------------------------------------------------------
\* The state machine

\* Start returning success without setting the run flag.
StateMachine_Start_NoSet(this) ==
    IF this # eStopped
    THEN [ret |-> 0, m_stThis |-> this]
    ELSE [ret |-> eRunning, m_stThis |-> this]

\* Start without the test of the run flag.
StateMachine_Start_Unchecked(this) == [ret |-> eRunning, m_stThis |-> eRunning]

\* StateMachine::Start: the new run flag and the value returned (the value of
\* the assignment when the machine was stopped).
StateMachine_Start(this) ==
    IF this # eStopped
    THEN [ret |-> 0, m_stThis |-> this]
    ELSE [ret |-> eRunning, m_stThis |-> eRunning]

\* StateMachine::Halt
StateMachine_Halt(this) ==
    IF this # eRunning
    THEN [ret |-> 0, m_stThis |-> this]
    ELSE [ret |-> eStopped, m_stThis |-> eStopped]

\* Reset without the test of the run flag.
StateMachine_Reset_Unchecked(this, cur) ==
    [ret |-> IF m_stStart # NULL THEN 1 ELSE 0, m_stCurrent |-> m_stStart]

\* StateMachine::Reset: the value returned is the assigned pointer converted
\* to int, non-zero for a non-null start state.
StateMachine_Reset(this, cur) ==
    IF this # eStopped
    THEN [ret |-> 0, m_stCurrent |-> cur]
    ELSE [ret |-> IF m_stStart # NULL THEN 1 ELSE 0, m_stCurrent |-> m_stStart]

\* transitable() returning true when the loop runs off the end.
RECURSIVE transitable_TrueAtEnd(_, _, _, _, _)
transitable_TrueAtEnd(st, tv, v, i, cur) ==
    IF i > Len(tv) THEN [ret |-> TRUE, log |-> <<>>]
    ELSE LET c == isTransitable(tv[i], v[i], st, i, cur)
         IN IF c.ret
            THEN [ret |-> TRUE, log |-> c.log]
            ELSE LET r == transitable_TrueAtEnd(st, tv, v, i + 1, cur)
                 IN [ret |-> r.ret, log |-> c.log \o r.log]

\* transitable() without its early return: every guard is evaluated.
RECURSIVE transitable_NoReturn(_, _, _, _, _)
transitable_NoReturn(st, tv, v, i, cur) ==
    IF i > Len(tv) THEN [ret |-> FALSE, log |-> <<>>]
    ELSE LET c == isTransitable(tv[i], v[i], st, i, cur)
             r == transitable_NoReturn(st, tv, v, i + 1, cur)
         IN [ret |-> c.ret \/ r.ret, log |-> c.log \o r.log]

\* StateMachine::transitable: the loop from candidate i on; the verdict, and
\* the guards it evaluated.
RECURSIVE transitable(_, _, _, _, _)
transitable(st, tv, v, i, cur) ==
    IF i > Len(tv) THEN [ret |-> FALSE, log |-> <<>>]
    ELSE LET c == isTransitable(tv[i], v[i], st, i, cur)
         IN IF c.ret
            THEN [ret |-> TRUE, log |-> c.log]
            ELSE LET r == transitable(st, tv, v, i + 1, cur)
                 IN [ret |-> r.ret, log |-> c.log \o r.log]

\* The for loop without its break: every candidate is invoked.
RECURSIVE ScanLoop_NoBreak(_, _, _, _, _)
ScanLoop_NoBreak(st, tv, v, i, cur) ==
    IF i > Len(tv) THEN [cur |-> cur, log |-> <<>>]
    ELSE LET c == Transition_call(tv[i], v[i], st, i, cur)
             r == ScanLoop_NoBreak(st, tv, v, i + 1, c.next)
         IN [cur |-> r.cur, log |-> c.log \o r.log]

\* The for loop of StateMachine::ProcessEvent from candidate i on, entered
\* with m_stCurrent = cur: every iteration assigns m_stCurrent the result of
\* the Transition (0 when its guard fails) and the loop breaks on a non-null
\* result.  The value of m_stCurrent after the loop, and the trace.
RECURSIVE ScanLoop(_, _, _, _, _)
ScanLoop(st, tv, v, i, cur) ==
    IF i > Len(tv) THEN [cur |-> cur, log |-> <<>>]
    ELSE LET c == Transition_call(tv[i], v[i], st, i, cur)
         IN IF c.next # NULL
            THEN [cur |-> c.next, log |-> c.log]
            ELSE LET r == ScanLoop(st, tv, v, i + 1, c.next)
                 IN [cur |-> r.cur, log |-> c.log \o r.log]

\* The test left out: every event goes on to the exit hook.
ValidTransition_Always(trEntry, t) == TRUE

\* "Valid Transition?": the test that lets ProcessEvent go on to the exit hook.
ValidTransition(trEntry, t) == ~(Len(trEntry) = 0 \/ ~t.ret)

\* ProcessEvent with the exit hook invoked after the transition instead of
\* before it.
ProcessEvent_ExitLate(st, trEntry, pre, scan, nd) ==
    LET t == transitable(st, trEntry, pre, 1, st)
        l == ScanLoop(st, trEntry, scan, 1, st)
    IN IF ~ValidTransition(trEntry, t)
       THEN [cur |-> st, ret |-> 0, log |-> t.log, abort |-> FALSE]
       ELSE IF l.cur # NULL
       THEN [cur |-> l.cur, ret |-> 1, abort |-> FALSE,
             log |-> t.log \o l.log \o State_Exit(st, l.cur)
                     \o State_Enter(l.cur, l.cur)]
       ELSE [cur |-> l.cur, ret |-> 0, abort |-> ~nd,
             log |-> t.log \o l.log \o State_Exit(st, l.cur)]

\* ProcessEvent treating a transition to the current State as internal: the
\* exit and entry hooks are skipped when the target is the State left.
ProcessEvent_SelfInternal(st, trEntry, pre, scan, nd) ==
    LET t == transitable(st, trEntry, pre, 1, st)
        l == ScanLoop(st, trEntry, scan, 1, st)
    IN IF ~ValidTransition(trEntry, t)
       THEN [cur |-> st, ret |-> 0, log |-> t.log, abort |-> FALSE]
       ELSE IF l.cur = st
       THEN [cur |-> l.cur, ret |-> 1, abort |-> FALSE, log |-> t.log \o l.log]
       ELSE IF l.cur # NULL
       THEN [cur |-> l.cur, ret |-> 1, abort |-> FALSE,
             log |-> t.log \o State_Exit(st, st) \o l.log
                     \o State_Enter(l.cur, l.cur)]
       ELSE [cur |-> l.cur, ret |-> 0, abort |-> ~nd,
             log |-> t.log \o State_Exit(st, st) \o l.log]

\* StateMachine::ProcessEvent on the current State st and its candidates
\* trEntry, with pre and scan the verdicts the guards return in transitable()
\* and in the for loop, and nd the build (assert compiled out): the new
\* m_stCurrent, the value returned, the trace and whether assert() aborted.
ProcessEvent(st, trEntry, pre, scan, nd) ==
    LET t == transitable(st, trEntry, pre, 1, st)
        l == ScanLoop(st, trEntry, scan, 1, st)
    IN IF ~ValidTransition(trEntry, t)
       THEN [cur |-> st, ret |-> 0, log |-> t.log, abort |-> FALSE]
       ELSE IF l.cur # NULL
       THEN [cur |-> l.cur, ret |-> 1, abort |-> FALSE,
             log |-> t.log \o State_Exit(st, st) \o l.log
                     \o State_Enter(l.cur, l.cur)]
       ELSE \* assert(false); return false;
            [cur |-> l.cur, ret |-> 0, abort |-> ~nd,
             log |-> t.log \o State_Exit(st, st) \o l.log]

\* Start rewinding the machine to its start state and announcing it by the
\* entry hook of the start state.
Start_Rewind ==
    /\ ~aborted
    /\ m_stThis' = StateMachine_Start(m_stThis).m_stThis
    /\ m_stCurrent' = m_stStart
    /\ last' = Op("Start", NoEvent, StateMachine_Start(m_stThis).ret,
                  State_Enter(m_stStart, m_stStart), m_stCurrent, m_stThis, <<>>)
    /\ UNCHANGED <<m_stTable, ndebug, aborted>>

\* StateMachine::Start
Start ==
    /\ ~aborted
    /\ m_stThis' = StateMachine_Start(m_stThis).m_stThis
    /\ last' = Op("Start", NoEvent, StateMachine_Start(m_stThis).ret,
                  <<>>, m_stCurrent, m_stThis, <<>>)
    /\ UNCHANGED <<m_stTable, m_stCurrent, ndebug, aborted>>

\* StateMachine::Halt
Halt ==
    /\ ~aborted
    /\ m_stThis' = StateMachine_Halt(m_stThis).m_stThis
    /\ last' = Op("Halt", NoEvent, StateMachine_Halt(m_stThis).ret,
                  <<>>, m_stCurrent, m_stThis, <<>>)
    /\ UNCHANGED <<m_stTable, m_stCurrent, ndebug, aborted>>

\* StateMachine::Reset
Reset ==
    /\ ~aborted
    /\ m_stCurrent' = StateMachine_Reset(m_stThis, m_stCurrent).m_stCurrent
    /\ last' = Op("Reset", NoEvent, StateMachine_Reset(m_stThis, m_stCurrent).ret,
                  <<>>, m_stCurrent, m_stThis, <<>>)
    /\ UNCHANGED <<m_stTable, m_stThis, ndebug, aborted>>

\* PostEvent on a machine that is not running: false is returned.
Rejected(ev) ==
    /\ last' = Op("PostEvent", ev, 0, <<>>, m_stCurrent, m_stThis, <<>>)
    /\ UNCHANGED <<m_stTable, m_stThis, m_stCurrent, ndebug, aborted>>

\* PostEvent on a running machine: ProcessEvent is called.  With m_stCurrent
\* null it dereferences a null pointer: the process is killed, or the read
\* yields an empty table and the event is not handled.
Dispatch(ev) ==
    IF m_stCurrent = NULL
    THEN /\ aborted' \in BOOLEAN
         /\ last' = Op("PostEvent", ev, 0, <<>>, m_stCurrent, m_stThis, <<>>)
         /\ UNCHANGED <<m_stTable, m_stThis, m_stCurrent, ndebug>>
    ELSE LET tbl     == State_index(m_stTable[m_stCurrent], ev)
             trEntry == tbl[ev]
         IN \E pre \in [1..Len(trEntry) -> BOOLEAN],
               scan \in [1..Len(trEntry) -> BOOLEAN] :
               LET r == ProcessEvent(m_stCurrent, trEntry, pre, scan, ndebug)
               IN /\ m_stTable' = [m_stTable EXCEPT ![m_stCurrent] = tbl]
                  /\ m_stCurrent' = r.cur
                  /\ aborted' = r.abort
                  /\ last' = Op("PostEvent", ev, r.ret, r.log,
                                m_stCurrent, m_stThis, trEntry)
                  /\ UNCHANGED <<m_stThis, ndebug>>

\* PostEvent without the test of the run flag.
PostEvent_Unchecked(ev) ==
    /\ ~aborted
    /\ Dispatch(ev)

\* StateMachine::PostEvent
PostEvent(ev) ==
    /\ ~aborted
    /\ IF m_stThis # eRunning THEN Rejected(ev) ELSE Dispatch(ev)

\* State::add called on State st by the embedding component.
add(st, ev, stNext, hGuard) ==
    /\ ~aborted
    /\ Registered < MaxTransitions
    /\ m_stTable' = [m_stTable EXCEPT ![st] = State_add(@, ev, stNext, hGuard)]
    /\ last' = [Op("add", ev, 0, <<>>, m_stCurrent, m_stThis, <<>>) EXCEPT !.st = st]
    /\ UNCHANGED <<m_stThis, m_stCurrent, ndebug, aborted>>

\* A constructor that leaves the machine running.
Init_Running ==
    /\ m_stTable = [s \in States |-> <<>>]
    /\ m_stThis = eRunning
    /\ m_stCurrent = m_stStart
    /\ ndebug \in BOOLEAN
    /\ aborted = FALSE
    /\ last = Op("new", NoEvent, 0, <<>>, m_stStart, eStopped, <<>>)

\* The States are constructed with empty tables; StateMachine::StateMachine
\* sets m_stCurrent to the start state and the run flag to eStopped.
Init ==
    /\ m_stTable = [s \in States |-> <<>>]
    /\ m_stThis = eStopped
    /\ m_stCurrent = m_stStart
    /\ ndebug \in BOOLEAN
    /\ aborted = FALSE
    /\ last = Op("new", NoEvent, 0, <<>>, m_stStart, eStopped, <<>>)

Next ==
    \/ Start
    \/ Halt
    \/ Reset
    \/ \E ev \in EventIDs : PostEvent(ev)
    \/ \E st \in States, ev \in EventIDs, stNext \in States, hGuard \in {0, 1} :
           add(st, ev, stNext, hGuard)

Spec == Init /\ [][Next]_vars

----------------------------------------------------------------------------
\* Observations on the last operation

\* The positions of the trace at which h was invoked.
Fired(h) == {k \in 1..Len(last.log) : last.log[k].h = h}

\* The guard of candidate i returned v in scan ph of the last operation.
Verdict(ph, i, v) ==
    \E k \in Fired("guard") :
        last.log[k].ph = ph /\ last.log[k].i = i /\ last.log[k].v = v

\* No guard returned two different verdicts within the last operation.
GuardsDeterministic ==
    \A a, b \in Fired("guard") :
        last.log[a].i = last.log[b].i => last.log[a].v = last.log[b].v

\* The last operation was a PostEvent that ProcessEvent dispatched on a State.
IsDispatch ==
    last.op = "PostEvent" /\ last.this0 = eRunning /\ last.cur0 # NULL

\* The dispatch was handled: PostEvent returned true.
Handled == IsDispatch /\ last.ret # 0

\* No exit hook, entry hook or action was invoked.
NoHooks == Fired("exit") = {} /\ Fired("enter") = {} /\ Fired("action") = {}

----------------------------------------------------------------------------
\* Claims

AllGuardsFalse ==
    Len(last.tv) > 0 /\ \A i \in 1..Len(last.tv) : Verdict("pre", i, FALSE)

C3_RegistrationOrderPriority ==
    (Handled /\ GuardsDeterministic)
        => \E k \in 1..Len(last.tv) :
               /\ Verdict("pre", k, TRUE)
               /\ \A j \in 1..(k - 1) : Verdict("pre", j, FALSE)
               /\ m_stCurrent = last.tv[k].m_stNext

\* C3 witness: guards (false, true) on two candidates with different targets;
\* the target of the second is the new current State.
C3_Witness ==
    /\ Handled /\ GuardsDeterministic /\ Len(last.tv) = 2
    /\ Verdict("pre", 1, FALSE) /\ Verdict("pre", 2, TRUE)
    /\ last.tv[1].m_stNext # last.tv[2].m_stNext
    /\ m_stCurrent = last.tv[2].m_stNext

\* C4: in a handled dispatch exactly one action is executed, once: that of
\* the selected candidate, the first one whose guard passes in the scan; no
\* action of a candidate whose guard is false or that is registered after
\* the selected one is executed.
C4_ExactlyOneAction ==
    Handled
        => /\ Cardinality(Fired("action")) = 1
           /\ \A a \in Fired("action") :
                  /\ last.log[a].st = last.cur0
                  /\ last.log[a].i \in 1..Len(last.tv)
                  /\ last.tv[last.log[a].i].m_stNext = m_stCurrent
                  /\ Verdict("scan", last.log[a].i, TRUE)
                  /\ ~Verdict("scan", last.log[a].i, FALSE)
                  /\ \A j \in 1..(last.log[a].i - 1) : Verdict("scan", j, FALSE)

\* C4 witness: the first candidate's guard is false, the action of the second
\* is the one executed.
C4_Witness ==
    /\ Handled /\ Len(last.tv) = 2 /\ Verdict("scan", 1, FALSE)
    /\ \E a \in Fired("action") : last.log[a].i = 2

\* C5: in a handled dispatch the exit hook of the old current State is
\* invoked exactly once, then the action of the selected transition, then the
\* entry hook of the target State exactly once; in an unhandled dispatch
\* (guards deterministic) no exit hook and no entry hook is invoked.
C5_ExitActionEnter ==
    /\ Handled
        => \E x, a, n \in 1..Len(last.log) :
               /\ Fired("exit") = {x} /\ Fired("action") = {a} /\ Fired("enter") = {n}
               /\ x < a /\ a < n
               /\ last.log[x].st = last.cur0
               /\ last.log[n].st = m_stCurrent
    /\ (IsDispatch /\ last.ret = 0 /\ GuardsDeterministic)
        => Fired("exit") = {} /\ Fired("enter") = {}

\* C5 witness: a handled dispatch from one State to another one.
C5_Witness ==
    /\ Handled /\ m_stCurrent # last.cur0
    /\ \E x \in Fired("exit"), n \in Fired("enter") :
           last.log[x].st = last.cur0 /\ last.log[n].st = m_stCurrent

\* C6: PostEvent on a stopped machine returns false for every event,
\* m_stCurrent is unchanged, and no guard is evaluated and no hook or action
\* is invoked.
C6_StoppedRejects ==
    (last.op = "PostEvent" /\ last.this0 = eStopped)
        => /\ last.ret = 0
           /\ m_stCurrent = last.cur0
           /\ m_stThis = eStopped
           /\ last.log = <<>>

\* C6 witness: the event rejected is one for which the current State has an
\* unguarded (always eligible) transition as its first candidate.
C6_Witness ==
    /\ last.op = "PostEvent" /\ last.this0 = eStopped /\ last.ret = 0
    /\ last.ev \in DOMAIN m_stTable[m_stCurrent]
    /\ Len(m_stTable[m_stCurrent][last.ev]) > 0
    /\ m_stTable[m_stCurrent][last.ev][1].m_guard = "NoGuard"

\* C7: Start on a stopped machine sets the run flag to eRunning and returns
\* success (non-zero); Start on a running machine changes nothing and returns
\* failure (zero).
C7_Start ==
    last.op = "Start"
        => /\ m_stCurrent = last.cur0
           /\ IF last.this0 = eStopped
              THEN m_stThis = eRunning /\ last.ret # 0
              ELSE m_stThis = last.this0 /\ last.ret = 0

\* C7 witness: the second of two Start calls, which fails.
C7_Witness ==
    last.op = "Start" /\ last.this0 = eRunning /\ last.ret = 0 /\ m_stThis = eRunning

\* C8: Halt on a running machine sets the run flag to eStopped and returns
\* success (non-zero, distinguishable from failure); Halt on a stopped machine
\* changes nothing and returns failure (zero).
C8_Halt ==
    last.op = "Halt"
        => /\ m_stCurrent = last.cur0
           /\ IF last.this0 = eRunning
              THEN m_stThis = eStopped /\ last.ret # 0
              ELSE m_stThis = last.this0 /\ last.ret = 0

\* C9: Reset on a stopped machine sets m_stCurrent to the start state, returns
\* success and invokes no hook; Reset on a running machine returns failure and
\* leaves m_stCurrent and the run flag unchanged.
C9_Reset ==
    last.op = "Reset"
        => /\ m_stThis = last.this0
           /\ last.log = <<>>
           /\ IF last.this0 = eStopped
              THEN m_stCurrent = m_stStart /\ last.ret # 0
              ELSE m_stCurrent = last.cur0 /\ last.ret = 0

\* C9 witness: a Reset on a stopped machine that changed m_stCurrent.
C9_Witness ==
    /\ last.op = "Reset" /\ last.this0 = eStopped /\ last.ret # 0
    /\ last.cur0 \in States /\ last.cur0 # m_stStart /\ m_stCurrent = m_stStart

\* C10: m_stCurrent is never null: in every state of a live machine it refers
\* to a State.
C10_CurrentNeverNull == ~aborted => m_stCurrent \in States

\* transitable() found an eligible candidate, the exit hook was invoked, and
\* the for loop then found no candidate eligible.
Disagreement ==
    /\ IsDispatch
    /\ \E i \in 1..Len(last.tv) : Verdict("pre", i, TRUE)
    /\ Fired("exit") # {}
    /\ Fired("action") = {}

\* C11: a dispatch in which the pre-scan finds an eligible candidate and the
\* scan finds none is fatal: the process is terminated, PostEvent does not
\* return and the machine accepts no further operation.
C11_DisagreementFatal == Disagreement => aborted

\* C13: the result of PostEvent is true whenever the machine was running,
\* whether or not the event was valid for the current State.
C13_TrueWheneverRunning == (IsDispatch /\ ~aborted) => last.ret # 0

\* C14: a transition registered without a guard is always eligible: while
\* Running in a State whose first candidate for the event's identifier is
\* unguarded, PostEvent is handled and m_stCurrent becomes its target.
C14_UnguardedAlwaysEligible ==
    (IsDispatch /\ Len(last.tv) > 0 /\ last.tv[1].m_guard = "NoGuard")
        => /\ last.ret # 0
           /\ Verdict("pre", 1, TRUE) /\ ~Verdict("pre", 1, FALSE)
           /\ Verdict("scan", 1, TRUE) /\ ~Verdict("scan", 1, FALSE)
           /\ m_stCurrent = last.tv[1].m_stNext

\* C14 witness: an unguarded first candidate, registered before a guarded one,
\* was taken.
C14_Witness ==
    /\ Handled /\ Len(last.tv) = 2
    /\ last.tv[1].m_guard = "NoGuard" /\ last.tv[2].m_guard = "EventGuard"
    /\ m_stCurrent = last.tv[1].m_stNext /\ m_stCurrent # last.cur0

\* The candidates Transition::operator() was applied to in the last dispatch.
Applied == {i \in 1..Len(last.tv) : \E v \in BOOLEAN : Verdict("scan", i, v)}

\* The positions of the trace at which the action of candidate i was executed.
ActionOf(i) == {k \in Fired("action") : last.log[k].i = i}

\* C15: with a deterministic guard, Transition::operator() executes the action
\* exactly once and returns the target exactly when isTransitable is true for
\* the same context and event; otherwise it returns 0 (which the for loop
\* stores in m_stCurrent) and executes no action.
C15_ApplyIffEligible ==
    (IsDispatch /\ GuardsDeterministic)
        => \A i \in Applied :
               IF Verdict("pre", i, TRUE)
               THEN /\ Cardinality(ActionOf(i)) = 1
                    /\ m_stCurrent = last.tv[i].m_stNext
               ELSE /\ Verdict("pre", i, FALSE)
                    /\ ActionOf(i) = {}
                    /\ \A k \in Fired("guard") :
                           (last.log[k].ph = "scan" /\ last.log[k].i = i + 1)
                               => last.log[k].cur = NULL

\* C15 witness: operator() was applied to an ineligible candidate (no action,
\* 0 returned) and then to an eligible one (action, target returned).
C15_Witness ==
    /\ Handled /\ GuardsDeterministic /\ Applied = {1, 2}
    /\ Verdict("pre", 1, FALSE) /\ ActionOf(1) = {}
    /\ Verdict("pre", 2, TRUE) /\ Cardinality(ActionOf(2)) = 1
    /\ m_stCurrent = last.tv[2].m_stNext

\* C17: in a handled dispatch the exit hook, the action and the entry hook all
\* run while m_stCurrent still refers to the source State; m_stCurrent is set
\* to the target only after the entry hook.
C17_CurrentUpdatedAfterEnter ==
    Handled
        => \A k \in Fired("exit") \cup Fired("action") \cup Fired("enter") :
               last.log[k].cur = last.cur0

\* The positions of the guard evaluations of scan ph, in trace order.
GuardsIn(ph) == {k \in Fired("guard") : last.log[k].ph = ph}

\* The guards of scan ph were evaluated in registration order from the first
\* candidate on, and none was evaluated after one returned true.
InOrder(ph) ==
    \A k \in GuardsIn(ph) :
        /\ last.log[k].i = Cardinality({j \in GuardsIn(ph) : j <= k})
        /\ last.log[k].v => \A j \in GuardsIn(ph) : j <= k

\* The number of evaluations of the guard of candidate i in scan ph.
Evaluations(ph, i) == Cardinality({k \in GuardsIn(ph) : last.log[k].i = i})

\* C18: the guards are evaluated in registration order; in neither scan is a
\* guard evaluated after the first eligible candidate; the exit hook is
\* invoked only after the pre-scan found an eligible candidate; in a handled
\* dispatch (deterministic guards) every guard up to the selected one is
\* evaluated exactly twice, once per scan, and later ones never; when all
\* guards are false every guard is evaluated exactly once.
C18_GuardProtocol ==
    IsDispatch
        => /\ InOrder("pre") /\ InOrder("scan")
           /\ \A x \in Fired("exit") :
                  /\ \E k \in GuardsIn("pre") : k < x /\ last.log[k].v
                  /\ \A k \in GuardsIn("pre") : k < x
                  /\ \A k \in GuardsIn("scan") : x < k
           /\ (Handled /\ GuardsDeterministic)
                  => \A a \in Fired("action"), i \in 1..Len(last.tv) :
                         IF i <= last.log[a].i
                         THEN Evaluations("pre", i) = 1 /\ Evaluations("scan", i) = 1
                         ELSE Evaluations("pre", i) = 0 /\ Evaluations("scan", i) = 0
           /\ AllGuardsFalse
                  => \A i \in 1..Len(last.tv) :
                         Evaluations("pre", i) = 1 /\ Evaluations("scan", i) = 0

\* C18 witness: the first of two candidates was selected and the guard of the
\* second was never evaluated.
C18_Witness ==
    /\ Handled /\ GuardsDeterministic /\ Len(last.tv) = 2
    /\ last.tv[1].m_guard = "EventGuard" /\ last.tv[2].m_guard = "EventGuard"
    /\ Evaluations("pre", 1) = 1 /\ Evaluations("scan", 1) = 1
    /\ Evaluations("pre", 2) = 0 /\ Evaluations("scan", 2) = 0

C19_DispatchNeverMutates ==
    last.op \in {"Start", "Halt", "Reset", "PostEvent"} => m_stTable = last.tbl0

\* The candidate sequence of ev in the table tbl of a State (empty when the
\* key is absent).
Candidates(tbl, ev) == IF ev \in DOMAIN tbl THEN tbl[ev] ELSE <<>>

\* C20: add(ev, ...) on a State appends exactly one transition at the end of
\* the candidate sequence of ev on that State: the candidates registered
\* before keep their positions, and the sequences of every other identifier
\* and of every other State are unchanged.
C20_AddAppends ==
    last.op = "add"
        => LET old == Candidates(last.tbl0[last.st], last.ev)
               new == Candidates(m_stTable[last.st], last.ev)
           IN /\ Len(new) = Len(old) + 1
              /\ \A i \in 1..Len(old) : new[i] = old[i]
              /\ \A e \in EventIDs \ {last.ev} :
                     Candidates(m_stTable[last.st], e)
                         = Candidates(last.tbl0[last.st], e)
              /\ DOMAIN m_stTable[last.st] = DOMAIN last.tbl0[last.st] \cup {last.ev}
              /\ \A s \in States \ {last.st} : m_stTable[s] = last.tbl0[s]

\* C20 witness: a second transition on the same identifier was added after a
\* different one, which kept the first position.
C20_Witness ==
    /\ last.op = "add"
    /\ Len(Candidates(last.tbl0[last.st], last.ev)) = 1
    /\ Len(Candidates(m_stTable[last.st], last.ev)) = 2
    /\ m_stTable[last.st][last.ev][1] = last.tbl0[last.st][last.ev][1]
    /\ m_stTable[last.st][last.ev][1] # m_stTable[last.st][last.ev][2]

\* C21: a newly constructed machine is stopped with m_stCurrent the start
\* state it was given, and neither the construction nor a registration
\* (State::add) invokes a hook or an action, starts the machine or moves it.
C21_ConstructedStopped ==
    /\ last.op = "new"
        => /\ m_stThis = eStopped /\ m_stCurrent = m_stStart
           /\ last.log = <<>> /\ ~aborted
           /\ \A s \in States : m_stTable[s] = <<>>
    /\ last.op = "add"
        => /\ last.log = <<>>
           /\ m_stThis = last.this0 /\ m_stCurrent = last.cur0

\* C21 witness: the machine was constructed and two transitions were then
\* registered on its start state (one of them a self-transition); it is
\* stopped in its start state.
C21_Witness ==
    /\ last.op = "add" /\ last.st = m_stStart /\ Registered = 2
    /\ \E e \in DOMAIN m_stTable[m_stStart] :
           /\ Len(m_stTable[m_stStart][e]) > 0
           /\ m_stTable[m_stStart][e][1].m_stNext = m_stStart
    /\ m_stThis = eStopped /\ m_stCurrent = m_stStart

\* C22: Start and Halt, succeeding or failing, never change m_stCurrent and
\* invoke no guard, action or hook; PostEvent and Reset never change the run
\* flag.
C22_FlagAndStateIndependent ==
    /\ last.op \in {"Start", "Halt"}
        => m_stCurrent = last.cur0 /\ last.log = <<>> /\ m_stTable = last.tbl0
    /\ last.op \in {"PostEvent", "Reset"}
        => m_stThis = last.this0

\* C22 witness: a machine halted away from its start state was started again
\* and is in the same State.
C22_Witness ==
    /\ last.op = "Start" /\ last.ret # 0 /\ m_stThis = eRunning
    /\ m_stCurrent \in States /\ m_stCurrent # m_stStart
    /\ m_stCurrent = last.cur0

\* The targets of the transitions registered on the States of S.
Targets(S) ==
    {m_stTable[s][e][i].m_stNext :
        <<s, e, i>> \in {x \in S \X EventIDs \X (1..MaxTransitions) :
                            /\ x[2] \in DOMAIN m_stTable[x[1]]
                            /\ x[3] <= Len(m_stTable[x[1]][x[2]])}}

\* The States reachable from the start state through registered transitions,
\* within n steps of S.
RECURSIVE Reach(_, _)
Reach(S, n) == IF n = 0 THEN S ELSE Reach(S \cup Targets(S), n - 1)

\* C23: with deterministic guards m_stCurrent is always the start state or the
\* target of a transition registered on a State that was current before; it
\* is never a State that is not reachable from the start state through
\* registered transitions.
C23_ReachabilityClosure ==
    last.det
        => /\ m_stCurrent \in {m_stStart} \cup Targets(last.seen)
           /\ m_stCurrent \in Reach({m_stStart}, Cardinality(States))

\* C23 witness: the machine moved to another State although a transition to
\* it was registered only on the State it came from.
C23_Witness ==
    /\ last.det /\ Handled /\ m_stCurrent # m_stStart
    /\ m_stCurrent \notin Targets(States \ {last.cur0})

\* The candidate selected by the last dispatch is a self-transition.
SelfSelected ==
    /\ IsDispatch
    /\ \E a \in Fired("action") :
           /\ last.log[a].i \in 1..Len(last.tv)
           /\ last.tv[last.log[a].i].m_stNext = last.cur0
           /\ \A b \in Fired("action") : b <= a

\* C24: when a self-transition is selected PostEvent returns true, the exit
\* hook of the State, the action of the transition and the entry hook of the
\* same State are invoked exactly once each in that order, and m_stCurrent
\* after the dispatch is m_stCurrent before it.
C24_SelfTransitionExternal ==
    SelfSelected
        => /\ last.ret # 0
           /\ m_stCurrent = last.cur0
           /\ \E x, a, n \in 1..Len(last.log) :
                  /\ Fired("exit") = {x} /\ Fired("action") = {a} /\ Fired("enter") = {n}
                  /\ x < a /\ a < n
                  /\ last.log[x].st = last.cur0
                  /\ last.log[n].st = last.cur0

\* C24 witness: the self-transition taken is the second candidate, another
\* State being the target of the first.
C24_Witness ==
    /\ SelfSelected /\ Handled /\ m_stCurrent = last.cur0
    /\ Len(last.tv) = 2 /\ last.tv[1].m_stNext # last.cur0
    /\ \E a \in Fired("action") : last.log[a].i = 2

====
